---- MODULE Spec2Model ----
(***************************************************************************)
(* The cross-region SSM import reader (handler M) and the bundled          *)
(* concurrency limiter (pLimit z over the linked-list Queue d) of          *)
(* src/unnamed/part_000.                                                   *)
(*                                                                         *)
(* JavaScript runs one job at a time: a synchronous stretch of code is one *)
(* action.  Promise reactions are jobs of the FIFO microtask queue, kept   *)
(* in the variable microtasks.  The completion of an operation started by  *)
(* the limiter (the promise m settling) is an event of the environment.    *)
(***************************************************************************)
EXTENDS Integers, Sequences, FiniteSets, TLC

\* ---------------------------------------------------------------- bounds
\* Operations a caller submits to one limiter in the limiter specification.
MaxOps == 3
\* Candidate numeric concurrency values are the halves h/2, h in -2..MaxHalf.
MaxHalf == 4
\* Names (keys) an ImportSet may hold: the strings "1".."NumNames".
NumNames == 3
\* Values an ImportSet may hold: the strings "1".."NumValues".
NumValues == 1
\* Remote calls for the names "1".."MaxFailing" can fail.
MaxFailing == 1
\* Invocations of the handler in a sequence of lifecycle invocations.
MaxInvocations == 3

\* ------------------------------------------------------ program constants
\* S(10): the concurrency of the limiter each fan-out builds.
FanoutConcurrency == 10

VARIABLES
  limiter,      \* "none" before pLimit is called, "ok" once it returned, "threw"
  concurrency,  \* r: the concurrency the limiter was built with
  queue,        \* e: the Queue of bound work items (ids of ops), head first
  activeCount,  \* t
  microtasks,   \* the engine's microtask queue, head first
  ops,          \* every work item submitted so far, by id (submission order)
  startOrder,   \* history: ids in the order their execution started
  clearCalled,  \* history: clearQueue was called
  request,      \* r: the event the handler M is invoked with
  pc,           \* where M stands
  all,          \* the Promise.all of the fan-out M awaits
  fanout,       \* ids of the ops of the fan-out M awaits
  result,       \* what M returned or threw
  props,        \* the props a construct (GlueStartJobRun, RecordSet) is built from
  construct,    \* the construct: its stage, the error thrown, what it holds
  prefix,       \* e.prefix: ReaderProps.prefix of the invocation
  tags,         \* the remote store: the <<parameter, tag key>> pairs that are set
  owners,       \* what the host holds of each owner: its state, prefix and imports
  invoker,      \* the owner the invocation is for
  invocations,  \* history: the number of invocations made
  invs,         \* interleaved invocations of M: each one's event and position
  lims          \* the limiters the interleaved invocations' fan-outs built

limVars == <<limiter, concurrency, queue, activeCount, microtasks, ops,
             startOrder, clearCalled>>
hVars == <<request, pc, all, fanout, result>>
cVars == <<props, construct>>
oVars == <<prefix, tags, owners, invoker, invocations>>
tVars == <<invs, lims>>
vars == <<limiter, concurrency, queue, activeCount, microtasks, ops,
          startOrder, clearCalled, request, pc, all, fanout, result,
          props, construct, prefix, tags, owners, invoker, invocations,
          invs, lims>>

\* ---------------------------------------------------------------- numbers
\* A JavaScript value given as concurrency: the number half/2, +Infinity,
\* -Infinity, NaN, or a value that is not a number ("other").
Num(h) == [kind |-> "num", half |-> h]
Candidates ==
  {Num(h) : h \in -2..MaxHalf}
    \cup {[kind |-> k, half |-> 0] : k \in {"inf", "-inf", "nan", "other"}}

NumberIsInteger(r) == r.kind = "num" /\ r.half % 2 = 0
IsInfinity(r) == r.kind = "inf"
GreaterThanZero(r) == (r.kind = "num" /\ r.half > 0) \/ r.kind = "inf"
\* t < r for the integer t
LessThan(t, r) == r.kind = "inf" \/ (r.kind = "num" /\ 2 * t < r.half)

\* mutant: the lower bound of the check is lost
ValidConcurrencyNoSign(r) == NumberIsInteger(r) \/ IsInfinity(r)
\* (Number.isInteger(r) || r === 1/0) && r > 0
ValidConcurrency(r) ==
  (NumberIsInteger(r) \/ IsInfinity(r)) /\ GreaterThanZero(r)

\* ------------------------------------------------------------------ Queue
\* The linked list with _head, _tail and _size is the sequence of its values.
enqueue(q, e) == Append(q, e)
\* mutant: the queue hands out its head and keeps it
dequeueKeep(q) == [value |-> Head(q), rest |-> q]
\* mutant: the queue hands out its newest item
dequeueLast(q) == [value |-> q[Len(q)], rest |-> SubSeq(q, 1, Len(q) - 1)]
dequeue(q) == [value |-> Head(q), rest |-> Tail(q)]
\* mutant: clear only drops the head
clearHeadOnly(q) == IF q = <<>> THEN q ELSE Tail(q)
clear(q) == <<>>
size(q) == Len(q)

\* ------------------------------------------------------------ work items
\* st: "queued" (in e), "running" (n called, m pending), "settled" (m
\*     settled, its reactions not yet run), "done" (o() has run),
\*     "discarded" (dropped by clearQueue)
\* res: what the operation's own call ended with
\* outcome: how m settled; future: the promise run() returned
\* kind/target: "op" for a caller's operation, "tag"/"untag" of a name
NewOp(kind, target) ==
  [st |-> "queued", res |-> "none", outcome |-> "none", future |-> "pending",
   kind |-> kind, target |-> target]

\* The limiter's own state, as the closures of pLimit see it.
LimState == [queue |-> queue, activeCount |-> activeCount, ops |-> ops,
             startOrder |-> startOrder]

\* mutant: the item is started without being counted
startItemUncounted(S) ==
  LET d == dequeue(S.queue) IN
  [S EXCEPT !.queue = d.rest,
            !.ops[d.value].st = "running",
            !.startOrder = Append(@, d.value)]
\* e.dequeue()(): take the head and run s up to its await:
\* t++, m = n(...a) is started, c(m), await m.
startItem(S) ==
  LET d == dequeue(S.queue) IN
  [S EXCEPT !.queue = d.rest,
            !.activeCount = @ + 1,
            !.ops[d.value].st = "running",
            !.startOrder = Append(@, d.value)]

\* mutant: the finished item's slot is released but the queue is not advanced
nextNoAdvance(S) == [S EXCEPT !.activeCount = @ - 1]
\* o: t--, e.size>0 && e.dequeue()()
next(S) ==
  LET S1 == [S EXCEPT !.activeCount = @ - 1] IN
  IF size(S1.queue) > 0 THEN startItem(S1) ELSE S1

\* mutant: the admission test is off by one
admitOffByOne(S, r) ==
  IF LessThan(S.activeCount - 1, r) /\ size(S.queue) > 0 THEN startItem(S) ELSE S
\* the job i schedules: t<r && e.size>0 && e.dequeue()()
admit(S, r) ==
  IF LessThan(S.activeCount, r) /\ size(S.queue) > 0 THEN startItem(S) ELSE S

\* mutant: the item is enqueued a second time, as a retry would
submitTwice(S, mt, kind, target) ==
  [S |-> [S EXCEPT !.ops = @ \o <<NewOp(kind, target), NewOp(kind, target)>>,
                   !.queue = @ \o <<Len(S.ops) + 1, Len(S.ops) + 2>>],
   mt |-> mt \o <<[k |-> "admit", op |-> 0], [k |-> "admit", op |-> 0]>>]
\* mutant: the new item is started within the call
submitEager(S, mt, kind, target) ==
  [S |-> startItem([S EXCEPT !.ops = Append(@, NewOp(kind, target)),
                             !.queue = enqueue(@, Len(S.ops) + 1)]),
   mt |-> Append(mt, [k |-> "admit", op |-> 0])]
\* i: e.enqueue(s.bind(...)) and the scheduling of one admission job
\* (the new item gets the next id).
submit(S, mt, kind, target) ==
  [S |-> [S EXCEPT !.ops = Append(@, NewOp(kind, target)),
                   !.queue = enqueue(@, Len(S.ops) + 1)],
   mt |-> Append(mt, [k |-> "admit", op |-> 0])]

SetLim(S) ==
  /\ queue' = S.queue
  /\ activeCount' = S.activeCount
  /\ ops' = S.ops
  /\ startOrder' = S.startOrder

\* ------------------------------------------------- outcomes of operations
\* What the remote call (or a caller's operation) can end with.
Results(kind) ==
  IF kind = "op" THEN {"ok", "err"} ELSE {"ok", "InvalidResourceId", "Other"}

\* mutant: the untag wrapper rethrows every error
WrapRethrowAll(kind, res) == IF res = "ok" THEN "fulfilled" ELSE "rejected"
\* mutant: the untag wrapper swallows every error
WrapSwallowAll(kind, res) ==
  IF kind = "untag" THEN "fulfilled"
  ELSE IF res = "ok" THEN "fulfilled" ELSE "rejected"
\* How the async function handed to the limiter settles: the tag wrapper
\* rethrows every error, the untag wrapper returns on InvalidResourceId.
Wrap(kind, res) ==
  IF res = "ok" THEN "fulfilled"
  ELSE IF kind = "untag" /\ res = "InvalidResourceId" THEN "fulfilled"
  ELSE "rejected"

\* Promise.all over the futures of the ops in ids, after op i settled.
Pending == [state |-> "pending", err |-> 0]
\* mutant: the aggregate fulfils on the first fulfilment
PromiseAllAny(a, o, ids, i) ==
  IF a.state # "pending" \/ i \notin ids THEN a
  ELSE IF o[i].future = "rejected" THEN [state |-> "rejected", err |-> i]
  ELSE [state |-> "fulfilled", err |-> 0]
\* mutant: a later rejection replaces the one the aggregate rejected with
PromiseAllLatest(a, o, ids, i) ==
  IF i \notin ids THEN a
  ELSE IF o[i].future = "rejected" THEN [state |-> "rejected", err |-> i]
  ELSE IF a.state = "pending" /\ \A j \in ids : o[j].future = "fulfilled"
       THEN [state |-> "fulfilled", err |-> 0]
  ELSE a
\* mutant: the aggregate waits for every item and ignores rejections
PromiseAllSettled(a, o, ids, i) ==
  IF a.state # "pending" \/ i \notin ids THEN a
  ELSE IF \A j \in ids : o[j].future # "pending"
       THEN [state |-> "fulfilled", err |-> 0]
  ELSE a
PromiseAll(a, o, ids, i) ==
  IF a.state # "pending" \/ i \notin ids THEN a
  ELSE IF o[i].future = "rejected" THEN [state |-> "rejected", err |-> i]
  ELSE IF \A j \in ids : o[j].future = "fulfilled"
       THEN [state |-> "fulfilled", err |-> 0]
  ELSE a

\* ================================================= the limiter's actions
NoRequest == [type |-> "none", cur |-> <<>>, old |-> <<>>]
NoResult == [state |-> "none", hasData |-> FALSE, Data |-> <<>>, err |-> 0]
NoConstruct == [stage |-> "none"]

\* No owner is tracked: one invocation with the prefix "p".
NoOwners == [o \in {} |-> 0]
InitOneOwner ==
  /\ prefix = "p"
  /\ tags = {}
  /\ owners = NoOwners
  /\ invoker = "none"
  /\ invocations = 0

\* The host records the resource's state when the invocation succeeded: the
\* ImportSet of the request, and that the owner is gone after a Delete.
Persist(O, o, req) ==
  IF o \notin DOMAIN O THEN O
  ELSE [O EXCEPT ![o].status = IF req.type = "Delete" THEN "deleted" ELSE "active",
                 ![o].imports = req.cur]

InitCommon ==
  /\ invs = <<>>
  /\ lims = <<>>
  /\ queue = <<>>
  /\ activeCount = 0
  /\ microtasks = <<>>
  /\ ops = <<>>
  /\ startOrder = <<>>
  /\ clearCalled = FALSE
  /\ all = Pending
  /\ fanout = {}
  /\ result = NoResult

Init ==
  /\ props = NoConstruct
  /\ construct = NoConstruct
  /\ InitCommon
  /\ InitOneOwner
  /\ limiter = "none"
  /\ concurrency = Num(0)
  /\ request = NoRequest
  /\ pc = "none"

\* z(r): the validation, then the fresh queue and counter
Construct(r) ==
  /\ limiter = "none"
  /\ concurrency' = r
  /\ limiter' = IF ValidConcurrency(r) THEN "ok" ELSE "threw"
  /\ UNCHANGED <<queue, activeCount, microtasks, ops, startOrder, clearCalled>>
  /\ UNCHANGED hVars
  /\ UNCHANGED cVars
  /\ UNCHANGED tVars
  /\ UNCHANGED oVars

\* u(n, ...c): new Promise(a => i(n, a, ...c))
Run ==
  /\ limiter = "ok"
  /\ Len(ops) < MaxOps
  /\ LET r == submit(LimState, microtasks, "op", 0) IN
       SetLim(r.S) /\ microtasks' = r.mt
  /\ UNCHANGED <<limiter, concurrency, clearCalled>>
  /\ UNCHANGED hVars
  /\ UNCHANGED cVars
  /\ UNCHANGED tVars
  /\ UNCHANGED oVars

\* clearQueue(): e.clear()
ClearQueue ==
  /\ limiter = "ok"
  /\ pc = "none"
  /\ LET q == clear(queue) IN
       /\ queue' = q
       /\ ops' = [i \in DOMAIN ops |->
                    IF ops[i].st = "queued" /\ \A k \in DOMAIN q : q[k] # i
                      THEN [ops[i] EXCEPT !.st = "discarded"] ELSE ops[i]]
  /\ clearCalled' = TRUE
  /\ UNCHANGED <<limiter, concurrency, activeCount, microtasks, startOrder>>
  /\ UNCHANGED hVars
  /\ UNCHANGED cVars
  /\ UNCHANGED tVars
  /\ UNCHANGED oVars

\* s: the tag key aws-cdk:strong-ref:+ e.prefix of the invocation
TagKey(p) == <<"aws-cdk:strong-ref:", p>>

\* What a remote call that succeeded did to the store: addTagsToResource
\* sets the tag on the parameter, removeTagsFromResource removes it.  A call
\* answered InvalidResourceId found no such parameter: none of its tags is
\* left.  A call that failed otherwise changed nothing.
RemoteEffect(T, kind, target, key, res) ==
  IF res = "ok" /\ kind = "tag" THEN T \cup {<<target, key>>}
  ELSE IF res = "ok" /\ kind = "untag" THEN T \ {<<target, key>>}
  ELSE IF res = "InvalidResourceId" THEN {t \in T : t[1] # target}
  ELSE T

\* The promise m of a running item settles (the operation ended).  Its
\* reactions are queued in the order they were registered: the await of s
\* first, then the adoption of m by the promise run() returned.
OpComplete(i, res) ==
  /\ i \in DOMAIN ops
  /\ ops[i].st = "running"
  /\ res \in Results(ops[i].kind)
  /\ ops' = [ops EXCEPT ![i].st = "settled", ![i].res = res,
                        ![i].outcome = Wrap(ops[i].kind, res)]
  /\ microtasks' = microtasks \o <<[k |-> "cont", op |-> i], [k |-> "settle", op |-> i]>>
  /\ tags' = RemoteEffect(tags, ops[i].kind, ops[i].target, TagKey(prefix), res)
  /\ UNCHANGED <<limiter, concurrency, queue, activeCount, startOrder, clearCalled>>
  /\ UNCHANGED hVars
  /\ UNCHANGED cVars
  /\ UNCHANGED tVars
  /\ UNCHANGED <<prefix, owners, invoker, invocations>>

\* The engine runs the oldest microtask.
RunAdmit ==
  /\ microtasks # <<>>
  /\ Head(microtasks).k = "admit"
  /\ SetLim(admit(LimState, concurrency))
  /\ microtasks' = Tail(microtasks)
  /\ UNCHANGED <<limiter, concurrency, clearCalled>>
  /\ UNCHANGED hVars
  /\ UNCHANGED cVars
  /\ UNCHANGED tVars
  /\ UNCHANGED oVars

\* s after its await: o()
RunCont ==
  /\ microtasks # <<>>
  /\ Head(microtasks).k = "cont"
  /\ LET i == Head(microtasks).op
         S == [LimState EXCEPT !.ops[i].st = "done"] IN
       SetLim(next(S))
  /\ microtasks' = Tail(microtasks)
  /\ UNCHANGED <<limiter, concurrency, clearCalled>>
  /\ UNCHANGED hVars
  /\ UNCHANGED cVars
  /\ UNCHANGED tVars
  /\ UNCHANGED oVars

\* The promise run() returned takes the state of m; a Promise.all over it
\* reacts.
RunSettle ==
  /\ microtasks # <<>>
  /\ Head(microtasks).k = "settle"
  /\ LET i == Head(microtasks).op
         o == [ops EXCEPT ![i].future = ops[i].outcome] IN
       /\ ops' = o
       /\ all' = PromiseAll(all, o, fanout, i)
  /\ microtasks' = Tail(microtasks)
  /\ UNCHANGED <<limiter, concurrency, queue, activeCount, startOrder, clearCalled>>
  /\ UNCHANGED <<request, pc, fanout, result>>
  /\ UNCHANGED cVars
  /\ UNCHANGED tVars
  /\ UNCHANGED oVars

Next ==
  \/ \E r \in Candidates : Construct(r)
  \/ Run
  \/ ClearQueue
  \/ \E i \in 1..MaxOps, res \in {"ok", "err"} : OpComplete(i, res)
  \/ RunAdmit
  \/ RunCont
  \/ RunSettle

Spec == Init /\ [][Next]_vars

\* The engine always runs a queued microtask; every operation that was
\* started ends.  Callers are free to stop submitting.
Fairness ==
  /\ WF_vars(RunAdmit)
  /\ WF_vars(RunCont)
  /\ WF_vars(RunSettle)
  /\ \A i \in 1..MaxOps : WF_vars(\E res \in {"ok", "err"} : OpComplete(i, res))

SpecLive == Init /\ [][Next]_vars /\ Fairness

\* ======================================================== the handler M
\* An ImportSet: the object r.ResourceProperties.ReaderProps.imports, a map
\* from names to values.  Names and values are strings; the string "n" is
\* the number n.
Strings(n) == 1..n
ImportSets == UNION {[D -> Strings(NumValues)] : D \in SUBSET Strings(NumNames)}

RECURSIVE Ascending(_)
Ascending(S) ==
  IF S = {} THEN <<>>
  ELSE CHOOSE q \in {<<m>> \o Ascending(S \ {m}) :
                       m \in {x \in S : \A y \in S : x <= y}} : TRUE
\* mutant: the values are taken where the names are meant
ObjectValues(t) == Ascending({t[k] : k \in DOMAIN t})
\* Object.keys(t): the names of t, each once (enumerated in ascending order)
ObjectKeys(t) == Ascending(DOMAIN t)

includes(e, t) == \E k \in DOMAIN e : e[k] = t
\* mutant: nothing is filtered out
PNoFilter(r, e) == r
\* P(r, e): r.filter(t => !e.includes(t))
P(r, e) == SelectSeq(r, LAMBDA t : ~includes(e, t))

Requests ==
  {[type |-> ty, cur |-> c, old |-> <<>>] : ty \in {"Create", "Delete"}, c \in ImportSets}
    \cup {[type |-> "Update", cur |-> c, old |-> o] : c \in ImportSets, o \in ImportSets}

\* mutant: Delete leaves the switch like the other cases
ReturnValueAlwaysData(type, t) ==
  [state |-> "returned", hasData |-> TRUE, Data |-> t, err |-> 0]
\* What M returns: nothing from the Delete case, {Data: t} after the switch.
ReturnValue(type, t) ==
  IF type = "Delete"
    THEN [state |-> "returned", hasData |-> FALSE, Data |-> <<>>, err |-> 0]
    ELSE [state |-> "returned", hasData |-> TRUE, Data |-> t, err |-> 0]

RECURSIVE submitAll(_, _, _, _)
\* e.map(s => o(async () => ...)): one run() per element, in order
submitAll(S, mt, kind, targets) ==
  IF targets = <<>> THEN [S |-> S, mt |-> mt]
  ELSE CHOOSE done \in {submitAll(r.S, r.mt, kind, Tail(targets)) :
                          r \in {submit(S, mt, kind, Head(targets))}} : TRUE

\* w (kind "tag") and x (kind "untag") up to their await: a new limiter
\* S(10), one run() per target, Promise.all over the futures.
StartFanout(kind, targets, nextpc) ==
  /\ limiter' = IF ValidConcurrency(Num(2 * FanoutConcurrency)) THEN "ok" ELSE "threw"
  /\ concurrency' = Num(2 * FanoutConcurrency)
  /\ LET S0 == [LimState EXCEPT !.queue = <<>>, !.activeCount = 0]
         r == submitAll(S0, microtasks, kind, targets) IN
       SetLim(r.S) /\ microtasks' = r.mt
  /\ fanout' = (Len(ops) + 1)..(Len(ops) + Len(targets))
  /\ all' = IF targets = <<>> THEN [state |-> "fulfilled", err |-> 0] ELSE Pending
  /\ pc' = nextpc
  /\ UNCHANGED <<clearCalled, request, result>>
  /\ UNCHANGED cVars
  /\ UNCHANGED tVars
  /\ UNCHANGED oVars

InitH ==
  /\ InitCommon
  /\ InitOneOwner
  /\ props = NoConstruct
  /\ construct = NoConstruct
  /\ limiter = "none"
  /\ concurrency = Num(0)
  /\ request \in Requests
  /\ pc = "start"

\* case "Create": await w(i, o, s)
HandleCreate ==
  /\ pc = "start"
  /\ request.type = "Create"
  /\ StartFanout("tag", ObjectKeys(request.cur), "awaitTag")

ToTag == P(ObjectKeys(request.cur), ObjectKeys(request.old))
ToUntag == P(ObjectKeys(request.old), ObjectKeys(request.cur))

\* case "Update": c = P(o, keys(n)), a = P(keys(n), o),
\* Object.keys(a).length > 0 && await x(i, a, s), then await w(i, c, s)
HandleUpdate ==
  /\ pc = "start"
  /\ request.type = "Update"
  /\ IF Len(ToUntag) > 0
       THEN StartFanout("untag", ToUntag, "awaitUntag")
       ELSE StartFanout("tag", ToTag, "awaitTag")

\* case "Delete": await x(i, o, s)
HandleDelete ==
  /\ pc = "start"
  /\ request.type = "Delete"
  /\ StartFanout("untag", ObjectKeys(request.cur), "awaitDelete")

\* Update after await x(...) fulfilled: await w(i, c, s)
UntagAwaited ==
  /\ pc = "awaitUntag"
  /\ all.state = "fulfilled"
  /\ StartFanout("tag", ToTag, "awaitTag")

\* Create and Update after await w(...) fulfilled: break, return {Data: t}
TagAwaited ==
  /\ pc = "awaitTag"
  /\ all.state = "fulfilled"
  /\ pc' = "returned"
  /\ result' = ReturnValue(request.type, request.cur)
  /\ owners' = Persist(owners, invoker, request)
  /\ UNCHANGED limVars
  /\ UNCHANGED <<request, all, fanout>>
  /\ UNCHANGED cVars
  /\ UNCHANGED tVars
  /\ UNCHANGED <<prefix, tags, invoker, invocations>>

\* Delete after await x(...) fulfilled: return
DeleteAwaited ==
  /\ pc = "awaitDelete"
  /\ all.state = "fulfilled"
  /\ pc' = "returned"
  /\ result' = ReturnValue(request.type, request.cur)
  /\ owners' = Persist(owners, invoker, request)
  /\ UNCHANGED limVars
  /\ UNCHANGED <<request, all, fanout>>
  /\ UNCHANGED cVars
  /\ UNCHANGED tVars
  /\ UNCHANGED <<prefix, tags, invoker, invocations>>

\* The awaited Promise.all rejected: catch (u) {console.error(...); throw u}.
\* The error is the one of the first rejected item; it names the item's target.
AwaitRejected ==
  /\ pc \in {"awaitUntag", "awaitTag", "awaitDelete"}
  /\ all.state = "rejected"
  /\ pc' = "threw"
  /\ result' = [state |-> "threw", hasData |-> FALSE, Data |-> <<>>,
                err |-> ops[all.err].target]
  /\ UNCHANGED limVars
  /\ UNCHANGED <<request, all, fanout>>
  /\ UNCHANGED cVars
  /\ UNCHANGED tVars
  /\ UNCHANGED oVars

NextH ==
  \/ HandleCreate
  \/ HandleUpdate
  \/ HandleDelete
  \/ UntagAwaited
  \/ TagAwaited
  \/ DeleteAwaited
  \/ AwaitRejected
  \/ \E i \in DOMAIN ops, res \in {"ok", "InvalidResourceId", "Other"} : OpComplete(i, res)
  \/ RunAdmit
  \/ RunCont
  \/ RunSettle

SpecH == InitH /\ [][NextH]_vars

\* The engine always runs a queued microtask and resumes M when what it
\* awaits has settled; every remote call that was started gets its response.
\* An invocation hands at most n items to its limiters.
FairHandler(n) ==
  /\ WF_vars(RunAdmit)
  /\ WF_vars(RunCont)
  /\ WF_vars(RunSettle)
  /\ WF_vars(HandleCreate \/ HandleUpdate \/ HandleDelete)
  /\ WF_vars(UntagAwaited \/ TagAwaited \/ DeleteAwaited \/ AwaitRejected)
  /\ \A i \in 1..n :
       WF_vars(\E res \in {"ok", "InvalidResourceId", "Other"} : OpComplete(i, res))

\* M reads the values of an ImportSet only to return them: the progress of
\* an invocation is checked over the ImportSets whose values are all "1".
OneValue(t) == \A n \in DOMAIN t : t[n] = 1
InitHLive == InitH /\ OneValue(request.cur) /\ OneValue(request.old)

SpecHLive == InitHLive /\ [][NextH]_vars /\ FairHandler(NumNames)

\* ------------------------------------------- fan-outs wider than the cap
\* An ImportSet of more names than S(10) admits at once, and a second one
\* that shares no name with it.
ManyNames == FanoutConcurrency + 1
ManyImports == [n \in 1..ManyNames |-> 1]
OtherImports == [n \in (ManyNames + 1)..(2 * ManyNames) |-> 1]
NoImports == [n \in {} |-> 1]
WideRequests ==
  {[type |-> ty, cur |-> ManyImports, old |-> <<>>] : ty \in {"Create", "Delete"}}
    \cup {[type |-> "Update", cur |-> c, old |-> ManyImports] :
            c \in {NoImports, OtherImports}}
    \cup {[type |-> "Update", cur |-> ManyImports, old |-> NoImports]}

InitWide ==
  /\ InitCommon
  /\ InitOneOwner
  /\ props = NoConstruct
  /\ construct = NoConstruct
  /\ limiter = "none"
  /\ concurrency = Num(0)
  /\ request \in WideRequests
  /\ pc = "start"

\* The response of a remote call reaches the process as an I/O event: the
\* event loop delivers it when no microtask is left.  The calls for the
\* first MaxFailing names can fail, the others succeed.
ResponseArrives(i, res) ==
  /\ microtasks = <<>>
  /\ i \in DOMAIN ops
  /\ res # "ok" => ops[i].target <= MaxFailing
  /\ OpComplete(i, res)

NextWide ==
  \/ HandleCreate
  \/ HandleUpdate
  \/ HandleDelete
  \/ UntagAwaited
  \/ TagAwaited
  \/ DeleteAwaited
  \/ AwaitRejected
  \/ \E i \in DOMAIN ops, res \in {"ok", "InvalidResourceId", "Other"} : ResponseArrives(i, res)
  \/ RunAdmit
  \/ RunCont
  \/ RunSettle

SpecWide == InitWide /\ [][NextWide]_vars

\* A fan-out over two names more than the cap: when the first response
\* arrives one item is started and one is still waiting.
DrainNames == FanoutConcurrency + 2
DrainImports == [n \in 1..DrainNames |-> 1]
DrainRequests ==
  {[type |-> ty, cur |-> DrainImports, old |-> <<>>] : ty \in {"Create", "Delete"}}
    \cup {[type |-> "Update", cur |-> NoImports, old |-> DrainImports],
          [type |-> "Update", cur |-> DrainImports, old |-> NoImports]}

InitDrain ==
  /\ InitCommon
  /\ InitOneOwner
  /\ props = NoConstruct
  /\ construct = NoConstruct
  /\ limiter = "none"
  /\ concurrency = Num(0)
  /\ request \in DrainRequests
  /\ pc = "start"

\* The engine always runs a queued microtask and resumes M when what it
\* awaits has settled.  While calls are in flight a response arrives.
FairDrain ==
  /\ WF_vars(RunAdmit \/ RunCont \/ RunSettle)
  /\ WF_vars(HandleCreate \/ HandleUpdate \/ HandleDelete
               \/ UntagAwaited \/ TagAwaited \/ DeleteAwaited \/ AwaitRejected)
  /\ WF_vars(\E i \in DOMAIN ops, res \in {"ok", "InvalidResourceId", "Other"} :
               ResponseArrives(i, res))

SpecDrain == InitDrain /\ [][NextWide]_vars /\ FairDrain

\* ------------------------------------------- owners and their lifecycles
\* Two owners (custom resources of two importing stacks) are served by the
\* handler, one invocation after the other.  The first has the prefix "p",
\* the second "p" too or "q".  Their ImportSets are over the names "1" and
\* "2"; the value of a name is another string than any name.
Owners == {"A", "B"}
OwnerNameSet == {1, 2}
OwnerValue(n) == n + Cardinality(OwnerNameSet)
OwnerImportSets == {[n \in D |-> OwnerValue(n)] : D \in SUBSET OwnerNameSet}

InitOwners ==
  /\ InitCommon
  /\ props = NoConstruct
  /\ construct = NoConstruct
  /\ limiter = "none"
  /\ concurrency = Num(0)
  /\ request = NoRequest
  /\ pc = "idle"
  /\ prefix = "p"
  /\ tags = {}
  /\ \E q \in {"p", "q"} :
       owners = [o \in Owners |->
                   [status |-> "new", imports |-> NoImports,
                    prefix |-> IF o = "A" THEN "p" ELSE q]]
  /\ invoker = "none"
  /\ invocations = 0

\* The host invokes M for the owner o with the event req, once the
\* invocation before has returned.
Invoke(o, req) ==
  /\ pc \in {"idle", "returned"}
  /\ invocations < MaxInvocations
  /\ request' = req
  /\ pc' = "start"
  /\ result' = NoResult
  /\ prefix' = owners[o].prefix
  /\ invoker' = o
  /\ invocations' = invocations + 1
  /\ UNCHANGED limVars
  /\ UNCHANGED <<all, fanout, tags, owners>>
  /\ UNCHANGED cVars
  /\ UNCHANGED tVars

\* RequestType "Create": the owner's first invocation
InvokeCreate(o, c) ==
  /\ owners[o].status = "new"
  /\ Invoke(o, [type |-> "Create", cur |-> c, old |-> <<>>])
\* RequestType "Update": OldResourceProperties is what the host recorded
InvokeUpdate(o, c) ==
  /\ owners[o].status = "active"
  /\ Invoke(o, [type |-> "Update", cur |-> c, old |-> owners[o].imports])
\* RequestType "Delete": ResourceProperties is what the host recorded
InvokeDelete(o) ==
  /\ owners[o].status = "active"
  /\ Invoke(o, [type |-> "Delete", cur |-> owners[o].imports, old |-> <<>>])

NextOwners ==
  \/ \E o \in Owners, c \in OwnerImportSets : InvokeCreate(o, c)
  \/ \E o \in Owners, c \in OwnerImportSets : InvokeUpdate(o, c)
  \/ \E o \in Owners : InvokeDelete(o)
  \/ HandleCreate
  \/ HandleUpdate
  \/ HandleDelete
  \/ UntagAwaited
  \/ TagAwaited
  \/ DeleteAwaited
  \/ AwaitRejected
  \/ \E i \in DOMAIN ops, res \in {"ok", "InvalidResourceId", "Other"} : ResponseArrives(i, res)
  \/ RunAdmit
  \/ RunCont
  \/ RunSettle

SpecOwners == InitOwners /\ [][NextOwners]_vars

\* --------------------------------------------- interleaved invocations
\* Two invocations of M run in one process, their steps interleaved.  Each
\* call of w or x builds a limiter with S(10): lims holds the limiters built
\* so far, each with the state of its closure (e, t) and the invocation that
\* built it.  The microtask queue and the remote store are the process's.
\* The first invocation fans out over as many names as the cap admits, the
\* second over one name.
Invocations == {1, 2}
CapImports == [n \in 1..FanoutConcurrency |-> 1]
One == [n \in {1} |-> 1]
Two == [n \in {2} |-> 1]
TwoRequests ==
  [Invocations ->
     {[type |-> ty, cur |-> One, old |-> <<>>] : ty \in {"Create", "Delete"}}
       \cup {[type |-> "Update", cur |-> Two, old |-> One]}
       \cup {[type |-> "Create", cur |-> CapImports, old |-> <<>>]}]

\* mutant: one limiter is built once and used by every fan-out
SharedLimiter(L) == 1
\* let o = S(10): the limiter a fan-out uses is a new one
NewLimiter(L) == Len(L) + 1

FreshLimiter(k) ==
  [queue |-> <<>>, activeCount |-> 0, ops |-> <<>>, startOrder |-> <<>>, inv |-> k]

InitTwo ==
  /\ props = NoConstruct
  /\ construct = NoConstruct
  /\ InitOneOwner
  /\ limiter = "none"
  /\ concurrency = Num(0)
  /\ queue = <<>>
  /\ activeCount = 0
  /\ ops = <<>>
  /\ startOrder = <<>>
  /\ clearCalled = FALSE
  /\ request = NoRequest
  /\ pc = "none"
  /\ all = Pending
  /\ fanout = {}
  /\ result = NoResult
  /\ microtasks = <<>>
  /\ lims = <<>>
  /\ \E rs \in TwoRequests :
       /\ rs[1].cur = CapImports
       /\ rs[2].cur # CapImports
       /\ invs = [k \in Invocations |->
                    [request |-> rs[k], pc |-> "start", lim |-> 0, all |-> Pending,
                     fanout |-> {}, result |-> NoResult]]

TwoFrame ==
  /\ UNCHANGED <<limiter, concurrency, queue, activeCount, ops, startOrder, clearCalled>>
  /\ UNCHANGED hVars
  /\ UNCHANGED cVars

\* w and x of the invocation k up to their await
TwoStartFanout(k, kind, targets, nextpc) ==
  LET l == NewLimiter(lims)
      L == IF l > Len(lims) THEN Append(lims, FreshLimiter(k)) ELSE lims
      first == Len(L[l].ops) + 1
      r == submitAll(L[l], <<>>, kind, targets) IN
  /\ ValidConcurrency(Num(2 * FanoutConcurrency))
  /\ lims' = [L EXCEPT ![l] = r.S]
  /\ microtasks' = microtasks \o
       [j \in DOMAIN r.mt |-> [k |-> r.mt[j].k, op |-> r.mt[j].op, lim |-> l]]
  /\ invs' = [invs EXCEPT
       ![k].pc = nextpc,
       ![k].lim = l,
       ![k].fanout = first..(first + Len(targets) - 1),
       ![k].all = IF targets = <<>> THEN [state |-> "fulfilled", err |-> 0] ELSE Pending]
  /\ UNCHANGED oVars
  /\ TwoFrame

\* The event loop takes the next event (an invocation, a response) only
\* when the microtask queue is empty and no invocation is about to resume
\* from an await that has settled.
Resumes(k) ==
  invs[k].pc \in {"awaitUntag", "awaitTag", "awaitDelete"} /\ invs[k].all.state # "pending"
LoopIdle == microtasks = <<>> /\ \A k \in Invocations : ~Resumes(k)

TwoToTag(k) == P(ObjectKeys(invs[k].request.cur), ObjectKeys(invs[k].request.old))
TwoToUntag(k) == P(ObjectKeys(invs[k].request.old), ObjectKeys(invs[k].request.cur))

TwoHandleCreate(k) ==
  /\ LoopIdle
  /\ invs[k].pc = "start"
  /\ invs[k].request.type = "Create"
  /\ TwoStartFanout(k, "tag", ObjectKeys(invs[k].request.cur), "awaitTag")

TwoHandleUpdate(k) ==
  /\ LoopIdle
  /\ invs[k].pc = "start"
  /\ invs[k].request.type = "Update"
  /\ IF Len(TwoToUntag(k)) > 0
       THEN TwoStartFanout(k, "untag", TwoToUntag(k), "awaitUntag")
       ELSE TwoStartFanout(k, "tag", TwoToTag(k), "awaitTag")

TwoHandleDelete(k) ==
  /\ LoopIdle
  /\ invs[k].pc = "start"
  /\ invs[k].request.type = "Delete"
  /\ TwoStartFanout(k, "untag", ObjectKeys(invs[k].request.cur), "awaitDelete")

TwoUntagAwaited(k) ==
  /\ invs[k].pc = "awaitUntag"
  /\ invs[k].all.state = "fulfilled"
  /\ TwoStartFanout(k, "tag", TwoToTag(k), "awaitTag")

\* the awaited fan-out fulfilled: M returns
TwoAwaited(k) ==
  /\ invs[k].pc \in {"awaitTag", "awaitDelete"}
  /\ invs[k].all.state = "fulfilled"
  /\ invs' = [invs EXCEPT
       ![k].pc = "returned",
       ![k].result = ReturnValue(invs[k].request.type, invs[k].request.cur)]
  /\ UNCHANGED <<lims, microtasks>>
  /\ UNCHANGED oVars
  /\ TwoFrame

\* the awaited fan-out rejected: M throws
TwoAwaitRejected(k) ==
  /\ invs[k].pc \in {"awaitUntag", "awaitTag", "awaitDelete"}
  /\ invs[k].all.state = "rejected"
  /\ invs' = [invs EXCEPT
       ![k].pc = "threw",
       ![k].result = [state |-> "threw", hasData |-> FALSE, Data |-> <<>>,
                      err |-> lims[invs[k].lim].ops[invs[k].all.err].target]]
  /\ UNCHANGED <<lims, microtasks>>
  /\ UNCHANGED oVars
  /\ TwoFrame

\* The response of the call of item i of the limiter l arrives; only a call
\* for the name "1" fails.
TwoResponseArrives(l, i, res) ==
  /\ LoopIdle
  /\ l \in DOMAIN lims
  /\ i \in DOMAIN lims[l].ops
  /\ lims[l].ops[i].st = "running"
  /\ res # "ok" => lims[l].ops[i].target = 1
  /\ lims' = [lims EXCEPT ![l].ops[i].st = "settled",
                          ![l].ops[i].res = res,
                          ![l].ops[i].outcome = Wrap(lims[l].ops[i].kind, res)]
  /\ microtasks' = <<[k |-> "cont", op |-> i, lim |-> l],
                     [k |-> "settle", op |-> i, lim |-> l]>>
  /\ tags' = RemoteEffect(tags, lims[l].ops[i].kind, lims[l].ops[i].target,
                          TagKey(prefix), res)
  /\ UNCHANGED invs
  /\ UNCHANGED <<prefix, owners, invoker, invocations>>
  /\ TwoFrame

TwoRunAdmit ==
  /\ microtasks # <<>>
  /\ Head(microtasks).k = "admit"
  /\ LET l == Head(microtasks).lim IN
       lims' = [lims EXCEPT ![l] = admit(lims[l], Num(2 * FanoutConcurrency))]
  /\ microtasks' = Tail(microtasks)
  /\ UNCHANGED invs
  /\ UNCHANGED oVars
  /\ TwoFrame

TwoRunCont ==
  /\ microtasks # <<>>
  /\ Head(microtasks).k = "cont"
  /\ LET l == Head(microtasks).lim
         i == Head(microtasks).op IN
       lims' = [lims EXCEPT ![l] = next([lims[l] EXCEPT !.ops[i].st = "done"])]
  /\ microtasks' = Tail(microtasks)
  /\ UNCHANGED invs
  /\ UNCHANGED oVars
  /\ TwoFrame

\* the future of the item settles; the Promise.all of the fan-out that the
\* limiter's invocation awaits on it reacts
TwoRunSettle ==
  /\ microtasks # <<>>
  /\ Head(microtasks).k = "settle"
  /\ LET l == Head(microtasks).lim
         i == Head(microtasks).op
         o == [lims[l].ops EXCEPT ![i].future = lims[l].ops[i].outcome]
         k == lims[l].inv IN
       /\ lims' = [lims EXCEPT ![l].ops = o]
       /\ invs' = IF invs[k].lim = l
                    THEN [invs EXCEPT ![k].all = PromiseAll(invs[k].all, o, invs[k].fanout, i)]
                    ELSE invs
  /\ microtasks' = Tail(microtasks)
  /\ UNCHANGED oVars
  /\ TwoFrame

NextTwo ==
  \/ \E k \in Invocations : TwoHandleCreate(k)
  \/ \E k \in Invocations : TwoHandleUpdate(k)
  \/ \E k \in Invocations : TwoHandleDelete(k)
  \/ \E k \in Invocations : TwoUntagAwaited(k)
  \/ \E k \in Invocations : TwoAwaited(k)
  \/ \E k \in Invocations : TwoAwaitRejected(k)
  \/ \E l \in DOMAIN lims : \E i \in DOMAIN lims[l].ops :
       \E res \in {"ok", "InvalidResourceId", "Other"} : TwoResponseArrives(l, i, res)
  \/ TwoRunAdmit
  \/ TwoRunCont
  \/ TwoRunSettle

SpecTwo == InitTwo /\ [][NextTwo]_vars

\* ===================================================== GlueStartJobRun
\* (packages/aws-cdk-lib/aws-stepfunctions-tasks/lib/glue/start-job-run.ts)
\* An optional number: a JavaScript number, undefined, or an unresolved token.
Undefined == [kind |-> "undefined", half |-> 0]
Unresolved == [kind |-> "token", half |-> 0]
WorkerValues ==
  {n \in Candidates : n.kind # "other"} \cup {Undefined, Unresolved}
IntegrationPatterns == {"REQUEST_RESPONSE", "RUN_JOB", "WAIT_FOR_TASK_TOKEN"}
GlueProps ==
  [integrationPattern : IntegrationPatterns \cup {"undefined"},
   numberOfWorkers : WorkerValues,
   workerType : {"undefined", "G.2X"}]

\* The truthiness of an optional number: 0, NaN and undefined are falsy.
Truthy(n) == n.kind \notin {"undefined", "nan"} /\ ~(n.kind = "num" /\ n.half = 0)
\* Token.isUnresolved(n)
isUnresolved(n) == n.kind = "token"
\* n < 1
LessThanOne(n) == (n.kind = "num" /\ n.half < 2) \/ n.kind = "-inf"

\* mutant: WAIT_FOR_TASK_TOKEN is listed as supported
SUPPORTED_WITH_TASK_TOKEN == {"REQUEST_RESPONSE", "RUN_JOB", "WAIT_FOR_TASK_TOKEN"}
SUPPORTED_INTEGRATION_PATTERNS == {"REQUEST_RESPONSE", "RUN_JOB"}

\* validatePatternSupported(pattern, supported) throws this when the pattern
\* is not among the supported ones.
UnsupportedPatternError == "Unsupported service integration pattern"
validatePatternSupported(pattern, supported) == pattern \in supported

\* the constructor's test of numberOfWorkers and the error it throws (the
\* messages are written without the backquotes around the property's name)
NumberOfWorkersError == "numberOfWorkers must be an integer greater than 0"
InvalidNumberOfWorkers(n) ==
  Truthy(n) /\ ~isUnresolved(n) /\ (~NumberIsInteger(n) \/ LessThanOne(n))

\* getPolicies(): the actions of the one statement (<<>>: undefined)
getPolicies(pattern) ==
  IF pattern = "REQUEST_RESPONSE" THEN <<"glue:StartJobRun">>
  ELSE IF pattern = "RUN_JOB"
    THEN <<"glue:StartJobRun", "glue:GetJobRun", "glue:GetJobRuns", "glue:BatchStopJobRun">>
  ELSE <<>>

\* integrationResourceArn('glue', 'startJobRun', pattern): the suffix of the ARN
integrationResourceArn(pattern) ==
  IF pattern = "RUN_JOB" THEN "glue:startJobRun.sync"
  ELSE IF pattern = "WAIT_FOR_TASK_TOKEN" THEN "glue:startJobRun.waitForTaskToken"
  ELSE "glue:startJobRun"

GlueNew ==
  [stage |-> "new", error |-> "", integrationPattern |-> "undefined",
   taskPolicies |-> <<>>, Resource |-> "", NumberOfWorkers |-> Undefined,
   WorkerType |-> "undefined"]

InitGlue ==
  /\ InitCommon
  /\ InitOneOwner
  /\ limiter = "none"
  /\ concurrency = Num(0)
  /\ request = NoRequest
  /\ pc = "none"
  /\ props \in GlueProps
  /\ construct = GlueNew

\* new GlueStartJobRun(scope, id, props)
GlueConstruct ==
  /\ construct.stage = "new"
  /\ LET pattern == IF props.integrationPattern = "undefined"
                      THEN "REQUEST_RESPONSE" ELSE props.integrationPattern IN
       construct' =
         IF ~validatePatternSupported(pattern, SUPPORTED_INTEGRATION_PATTERNS)
           THEN [construct EXCEPT !.stage = "threw", !.error = UnsupportedPatternError,
                                  !.integrationPattern = pattern]
         ELSE IF InvalidNumberOfWorkers(props.numberOfWorkers)
           THEN [construct EXCEPT !.stage = "threw", !.error = NumberOfWorkersError,
                                  !.integrationPattern = pattern]
         ELSE [construct EXCEPT !.stage = "constructed",
                                !.integrationPattern = pattern,
                                !.taskPolicies = getPolicies(pattern)]
  /\ UNCHANGED props
  /\ UNCHANGED limVars
  /\ UNCHANGED hVars
  /\ UNCHANGED oVars
  /\ UNCHANGED tVars

\* _renderTask(): Resource, Parameters.NumberOfWorkers and Parameters.WorkerType
GlueRenderTask ==
  /\ construct.stage = "constructed"
  /\ construct' = [construct EXCEPT !.stage = "rendered",
                     !.Resource = integrationResourceArn(construct.integrationPattern),
                     !.NumberOfWorkers = props.numberOfWorkers,
                     !.WorkerType = props.workerType]
  /\ UNCHANGED props
  /\ UNCHANGED limVars
  /\ UNCHANGED hVars
  /\ UNCHANGED oVars
  /\ UNCHANGED tVars

NextGlue ==
  \/ GlueConstruct
  \/ GlueRenderTask

SpecGlue == InitGlue /\ [][NextGlue]_vars

\* ============================================================== RecordSet
\* (aws-route53 record-set.ts)
\* An optional string or array: def is FALSE for undefined, val is the
\* sequence of its characters (of its elements).
Absent == [def |-> FALSE, val |-> <<>>]
Given(s) == [def |-> TRUE, val |-> s]
Repeat(c, n) == [i \in 1..n |-> c]
\* The truthiness of an optional string: undefined and '' are falsy.
TruthyString(s) == s.def /\ s.val # <<>>
\* The truthiness of an optional array or object: only undefined is falsy.
TruthyObject(o) == o.def

WeightMax == 255
SetIdentifierMax == 128
LocationNameMax == 16
CidrListMax == 1000
CollectionNameMax == 64

\* /^[0-9A-Za-z_\-]+$/.test(s): "a", "0", "_" and "-" stand for the class
NameChars == {"a", "0", "_", "-"}
MatchesName(s) == Len(s) >= 1 /\ \A i \in 1..Len(s) : s[i] \in NameChars
\* locationName === '*'
IsStar(s) == s.def /\ s.val = <<"*">>

\* weight < 0, weight > 255
Negative(n) == (n.kind = "num" /\ n.half < 0) \/ n.kind = "-inf"
Above(n, max) == (n.kind = "num" /\ n.half > 2 * max) \/ n.kind = "inf"

NoCidrRoutingConfig ==
  [def |-> FALSE, locationName |-> Absent, cidrList |-> Absent,
   collectionName |-> Absent, collection |-> FALSE]
\* locationName: '*', a name, a name with a character outside the class, a
\* name one character too long; cidrList: undefined, [], one block, one
\* block too many; collectionName: undefined, a name, a name with a
\* character outside the class; collection: an existing collection or none
CidrRoutingConfigs ==
  [def : {TRUE},
   locationName : {Given(<<"*">>), Given(<<"a", "_", "0">>), Given(<<"a", "!">>),
                   Given(Repeat("a", LocationNameMax + 1))},
   cidrList : {Absent, Given(<<>>), Given(<<"192.168.1.0/24">>),
               Given(Repeat("192.168.1.0/24", CidrListMax + 1))},
   collectionName : {Absent, Given(<<"a", "-", "0">>), Given(<<"a", "!">>)},
   collection : BOOLEAN]

\* RecordSetProps: the routing options, setIdentifier and whether the target
\* is an alias target. A geoLocation is GeoLocation.continent(code).
RecordSetProps ==
  [weight : {Undefined, Num(0), Num(20), Num(2 * (WeightMax + 1))},
   setIdentifier : {Absent, Given(<<>>), Given(<<"a">>),
                    Given(Repeat("a", SetIdentifierMax)),
                    Given(Repeat("a", SetIdentifierMax + 1))},
   geoLocation : {Absent, Given(<<"EU">>)},
   region : {Absent, Given(<<"us-east-1">>)},
   multiValueAnswer : {"undefined", "false", "true"},
   aliasTarget : BOOLEAN,
   cidrRoutingConfig : {NoCidrRoutingConfig} \cup CidrRoutingConfigs]

\* The errors of the constructor (without the "got: ..." they end with).
WeightError == "weight must be between 0 and 255 inclusive"
SetIdentifierLengthError == "setIdentifier must be between 1 and 128 characters long"
SetIdentifierSimpleError == "setIdentifier can only be specified for non-simple routing policies"
MultiValueAliasError == "multiValueAnswer cannot be specified for alias record"
OnlyOneError == "Only one of region, weight, multiValueAnswer, cidrRoutingConfig or geoLocation can be defined"
LocationNameLengthError == "locationName must be between 1 and 16 characters long"
CidrListDefaultError == "cidrList can only be specified for non-default locations"
DefaultExistingError == "Default location cannot be specified when using an existing CIDR collection"
LocationNameCharsError == "locationName must only contain alphanumeric characters, underscores, and hyphens, or only '*'"
CidrListLengthError == "cidrList must contain between 1 and 1000 elements"
CollectionNameLengthError == "collectionName must be between 1 and 64 characters long"
CollectionNameCharsError == "collectionName must only contain alphanumeric characters, underscores, and hyphens"

\* [geoLocation, region, weight, multiValueAnswer, cidrRoutingConfig]
\*   .filter((variable) => variable !== undefined).length
nonSimpleRoutingPolicies(p) ==
  (IF p.geoLocation.def THEN 1 ELSE 0) + (IF p.region.def THEN 1 ELSE 0)
    + (IF p.weight.kind # "undefined" THEN 1 ELSE 0)
    + (IF p.multiValueAnswer # "undefined" THEN 1 ELSE 0)
    + (IF p.cidrRoutingConfig.def THEN 1 ELSE 0)

\* The checks of the constructor in their order: the error of the first one
\* that throws, "" when none does.
ValidationError(p) ==
  LET c == p.cidrRoutingConfig IN
  IF Truthy(p.weight) /\ (Negative(p.weight) \/ Above(p.weight, WeightMax))
    THEN WeightError
  ELSE IF TruthyString(p.setIdentifier)
          /\ (Len(p.setIdentifier.val) < 1 \/ Len(p.setIdentifier.val) > SetIdentifierMax)
    THEN SetIdentifierLengthError
  ELSE IF /\ TruthyString(p.setIdentifier)
          /\ p.weight.kind = "undefined"
          /\ ~TruthyObject(p.geoLocation)
          /\ ~TruthyString(p.region)
          /\ p.multiValueAnswer # "true"
          /\ ~TruthyObject(c)
    THEN SetIdentifierSimpleError
  ELSE IF p.multiValueAnswer = "true" /\ p.aliasTarget
    THEN MultiValueAliasError
  ELSE IF nonSimpleRoutingPolicies(p) > 1
    THEN OnlyOneError
  ELSE IF ~TruthyObject(c)
    THEN ""
  ELSE IF TruthyString(c.locationName)
          /\ (Len(c.locationName.val) < 1 \/ Len(c.locationName.val) > LocationNameMax)
    THEN LocationNameLengthError
  ELSE IF IsStar(c.locationName) /\ TruthyObject(c.cidrList)
    THEN CidrListDefaultError
  ELSE IF IsStar(c.locationName) /\ c.collection
    THEN DefaultExistingError
  ELSE IF TruthyString(c.locationName) /\ ~MatchesName(c.locationName.val)
          /\ ~IsStar(c.locationName)
    THEN LocationNameCharsError
  ELSE IF TruthyObject(c.cidrList)
          /\ (Len(c.cidrList.val) < 1 \/ Len(c.cidrList.val) > CidrListMax)
    THEN CidrListLengthError
  ELSE IF TruthyString(c.collectionName)
          /\ (Len(c.collectionName.val) < 1 \/ Len(c.collectionName.val) > CollectionNameMax)
    THEN CollectionNameLengthError
  ELSE IF TruthyString(c.collectionName) /\ ~MatchesName(c.collectionName.val)
    THEN CollectionNameCharsError
  ELSE ""

\* Names.uniqueResourceName(this, ...)
uniqueResourceName == <<"unique">>

\* configureIpBasedRouting: the location added to the collection (Absent:
\* the collection is created without locations) and this.cidrLocation
configureIpBasedRouting(c) ==
  LET locationName == IF c.locationName.def THEN c.locationName.val
                      ELSE uniqueResourceName
      isDefaultLocation == locationName = <<"*">>
      location == IF c.collection
                    THEN Given(<<[cidrList |-> c.cidrList, locationName |-> locationName]>>)
                  ELSE IF isDefaultLocation THEN Absent
                  ELSE Given(<<[cidrList |-> IF c.cidrList.def THEN c.cidrList
                                              ELSE Given(<<>>),
                                locationName |-> locationName]>>)
  IN [locations |-> location,
      cidrLocation |-> Given(<<IF c.collection THEN "collection.ref"
                               ELSE "CidrCollection.ref">> \o locationName)]

\* createIdentifier(prefix)
createIdentifier(idPrefix) == Given(idPrefix \o uniqueResourceName)
\* configureSetIdentifier(), cidrLocation being this.cidrLocation
configureSetIdentifier(p, cidrLocation) ==
  IF TruthyObject(p.geoLocation)
    THEN Given(<<"GEO", "_CONTINENT_">> \o p.geoLocation.val)
  ELSE IF p.weight.kind # "undefined"
    THEN createIdentifier(<<"WEIGHT_", ToString(p.weight.half \div 2), "_ID_">>)
  ELSE IF TruthyString(p.region)
    THEN createIdentifier(<<"REGION_">> \o p.region.val \o <<"_ID_">>)
  ELSE IF p.multiValueAnswer = "true"
    THEN createIdentifier(<<"MVA_ID_">>)
  ELSE IF TruthyObject(cidrLocation)
    THEN createIdentifier(<<"IP_">> \o cidrLocation.val \o <<"_ID_">>)
  ELSE Absent

RecordSetNew ==
  [stage |-> "new", error |-> "", setIdentifier |-> Absent,
   locations |-> Absent, cidrLocation |-> Absent]

InitRecordSet ==
  /\ InitCommon
  /\ InitOneOwner
  /\ limiter = "none"
  /\ concurrency = Num(0)
  /\ request = NoRequest
  /\ pc = "none"
  /\ props \in RecordSetProps
  /\ construct = RecordSetNew

\* new RecordSet(scope, id, props): the checks, then the CfnRecordSet
RecordSetConstruct ==
  /\ construct.stage = "new"
  /\ LET error == ValidationError(props)
         ip == IF TruthyObject(props.cidrRoutingConfig)
                 THEN configureIpBasedRouting(props.cidrRoutingConfig)
               ELSE [locations |-> Absent, cidrLocation |-> Absent] IN
       construct' =
         IF error # ""
           THEN [construct EXCEPT !.stage = "threw", !.error = error]
         ELSE [construct EXCEPT
                 !.stage = "constructed",
                 !.locations = ip.locations,
                 !.cidrLocation = ip.cidrLocation,
                 !.setIdentifier =
                   IF props.setIdentifier.def THEN props.setIdentifier
                   ELSE configureSetIdentifier(props, ip.cidrLocation)]
  /\ UNCHANGED props
  /\ UNCHANGED limVars
  /\ UNCHANGED hVars
  /\ UNCHANGED oVars
  /\ UNCHANGED tVars

NextRecordSet ==
  \/ RecordSetConstruct

SpecRecordSet == InitRecordSet /\ [][NextRecordSet]_vars

\* ========================================================= the limiter's claims
Started(i) == ops[i].st \in {"running", "settled", "done"}
\* t <= r for the integer t
AtMost(t, r) == r.kind = "inf" \/ (r.kind = "num" /\ 2 * t <= r.half)
HeadJob(kind) ==
  /\ microtasks # <<>>
  /\ Head(microtasks).k = kind
  /\ microtasks' = Tail(microtasks)

\* C1: with a limiter built with limit L >= 1, activeCount never exceeds L in
\* any reachable state, whatever the interleaving of run() calls and of
\* completions (success or rejection); nor does the number of operations in
\* execution.
C1_ActiveCountAtMostLimit ==
  limiter = "ok" =>
    /\ AtMost(activeCount, concurrency)
    /\ AtMost(Cardinality({i \in DOMAIN ops : ops[i].st = "running"}), concurrency)
\* The limit is reached with work waiting, after a rejection.
C1_Witness ==
  /\ limiter = "ok"
  /\ concurrency = Num(4)
  /\ activeCount = 2
  /\ size(queue) > 0
  /\ \E i \in DOMAIN ops : ops[i].outcome = "rejected"

Finished(i) == i \in DOMAIN ops /\ ops[i].st = "done" /\ ops[i].future # "pending"
\* C2: if clearQueue is never called and every started operation ends, every
\* submitted operation is eventually started and completed and the future
\* run() returned for it eventually settles.
C2_AllEventuallySettle ==
  \A i \in 1..MaxOps :
    [](i \in DOMAIN ops =>
         <>(clearCalled \/ Finished(i)))
\* More operations than the limit, all completed and settled, none cleared.
C2_Witness ==
  /\ concurrency = Num(2)
  /\ Len(ops) >= 3
  /\ ~clearCalled
  /\ \A i \in DOMAIN ops : ops[i].st = "done" /\ ops[i].future # "pending"

\* C3: admission is FIFO: of two operations submitted to the limiter, neither
\* discarded by clearQueue, the one submitted first starts first.
C3_FifoAdmission ==
  /\ \A i, j \in DOMAIN ops :
       (i < j /\ Started(j) /\ ops[i].st # "discarded") => Started(i)
  /\ \A a, b \in DOMAIN startOrder : a < b => startOrder[a] < startOrder[b]
\* Three operations went through a limiter of 1 while one was still waiting
\* when the first ended.
C3_Witness ==
  /\ concurrency = Num(2)
  /\ Len(startOrder) >= 3
  /\ ~clearCalled

\* C4: clearQueue() leaves pendingCount at 0, and the items it discarded are
\* never started afterwards and their futures never settle.
C4_ClearQueueDiscards ==
  /\ [][ClearQueue => size(queue') = 0]_vars
  /\ [](\A i \in DOMAIN ops :
          ops[i].st = "discarded" =>
            /\ ops[i].future = "pending"
            /\ \A k \in DOMAIN startOrder : startOrder[k] # i
            /\ \A k \in DOMAIN queue : queue[k] # i)
  /\ [][\A i \in DOMAIN ops :
          ops[i].st = "discarded" =>
            ops'[i].st = "discarded" /\ ops'[i].future = "pending"]_vars
\* Several items were submitted, none had started when clearQueue was called,
\* and the admission jobs they had scheduled have all run since.
C4_Witness ==
  /\ clearCalled
  /\ Len(ops) >= 2
  /\ \A i \in DOMAIN ops : ops[i].st = "discarded"
  /\ startOrder = <<>>
  /\ microtasks = <<>>

\* C5: when an operation rejects, the limiter still decrements activeCount and
\* admits the next queued item, and each future settles with the outcome of
\* its own operation only.
C5_RejectionIsolated ==
  /\ [][(HeadJob("cont") /\ ops[Head(microtasks).op].outcome = "rejected") =>
          IF size(queue) > 0
            THEN /\ activeCount' = activeCount
                 /\ ops'[Head(queue)].st = "running"
                 /\ queue' = Tail(queue)
            ELSE activeCount' = activeCount - 1]_vars
  /\ [](\A i \in DOMAIN ops : ops[i].future \in {"pending", ops[i].outcome})
\* An operation rejected, the item queued behind it ran and fulfilled.
C5_Witness ==
  /\ concurrency = Num(2)
  /\ \E i, j \in DOMAIN ops :
       /\ i < j
       /\ ops[i].future = "rejected"
       /\ ops[j].future = "fulfilled"

\* C6: building a limiter throws for every concurrency that is neither a
\* positive integer nor Infinity, and succeeds for every positive integer and
\* for Infinity.
IsPositiveInteger(r) == r.kind = "num" /\ \E n \in 1..MaxHalf : r.half = 2 * n
C6_ConstructionValidates ==
  /\ limiter = "threw" => ~(IsPositiveInteger(concurrency) \/ concurrency.kind = "inf")
  /\ limiter = "ok" => (IsPositiveInteger(concurrency) \/ concurrency.kind = "inf")
  /\ limiter = "threw" => ops = <<>>
\* Construction with 0 threw.
C6_Witness == limiter = "threw" /\ concurrency = Num(0)
\* Construction with Infinity succeeded and more than two operations run.
C6_WitnessUnbounded == limiter = "ok" /\ concurrency.kind = "inf" /\ activeCount = 3

\* The operations that were started and whose outcome s has not processed
\* yet (o() has not run for them).
Unprocessed == {i \in DOMAIN ops : ops[i].st \in {"running", "settled"}}
\* C21: activeCount is exactly the number of operations whose execution has
\* started and whose outcome has not yet been processed; it never goes below
\* 0 and is 0 once every started operation has completed.
C21_ActiveCountIsUnprocessed ==
  limiter = "ok" =>
    /\ activeCount = Cardinality(Unprocessed)
    /\ activeCount >= 0
    /\ (\A i \in DOMAIN ops : Started(i) => ops[i].st = "done") => activeCount = 0
\* Two operations are counted, one running and one ended whose outcome waits
\* to be processed.
C21_Witness ==
  /\ limiter = "ok"
  /\ activeCount = 2
  /\ \E i, j \in DOMAIN ops : ops[i].st = "running" /\ ops[j].st = "settled"
\* The counter is back at 0 after three operations, one of them rejected.
C21_WitnessIdle ==
  /\ limiter = "ok"
  /\ activeCount = 0
  /\ Len(ops) = MaxOps
  /\ \A i \in DOMAIN ops : ops[i].st = "done"
  /\ \E i \in DOMAIN ops : ops[i].outcome = "rejected"

\* C22: run() never starts the operation within the call: when it returns
\* the future is pending, activeCount is unchanged and pendingCount is one
\* more, even when activeCount is below the limit; an operation starts only
\* in a later turn, in a job of the microtask queue.
C22_RunDefersAdmission ==
  /\ [][Run =>
          /\ activeCount' = activeCount
          /\ size(queue') = size(queue) + 1
          /\ Len(ops') = Len(ops) + 1
          /\ ops'[Len(ops')].st = "queued"
          /\ ops'[Len(ops')].future = "pending"
          /\ startOrder' = startOrder]_vars
  /\ [][startOrder' # startOrder => (HeadJob("admit") \/ HeadJob("cont"))]_vars
\* run() has returned on an idle limiter: the operation waits in the queue
\* for its admission job although nothing is active.
C22_Witness ==
  /\ limiter = "ok"
  /\ activeCount = 0
  /\ LessThan(activeCount, concurrency)
  /\ size(queue) = 1
  /\ ops[Head(queue)].st = "queued" /\ ops[Head(queue)].future = "pending"
  /\ microtasks = <<[k |-> "admit", op |-> 0]>>

\* No admission job is waiting in the microtask queue.
NoAdmissionScheduled == \A k \in DOMAIN microtasks : microtasks[k].k # "admit"
\* C26: the limiter loses no wake-up: in every state where no admission job
\* is still scheduled, pendingCount > 0 implies activeCount = L, whatever the
\* interleaving of run() calls, completions and clearQueue() calls.
C26_WorkConserving ==
  (limiter = "ok" /\ NoAdmissionScheduled /\ size(queue) > 0) =>
    concurrency.kind = "num" /\ 2 * activeCount = concurrency.half
\* An item waits behind a full limiter after clearQueue() had discarded
\* another; every admission job has run.
C26_Witness ==
  /\ limiter = "ok"
  /\ clearCalled
  /\ NoAdmissionScheduled
  /\ size(queue) > 0
  /\ 2 * activeCount = concurrency.half
  /\ \E i \in DOMAIN ops : ops[i].st = "discarded"
\* An item waits while the outcome of a finished one is about to be
\* processed.
C26_WitnessHandoff ==
  /\ limiter = "ok"
  /\ NoAdmissionScheduled
  /\ size(queue) > 0
  /\ microtasks # <<>> /\ Head(microtasks).k = "cont"

\* The operations in a state of their life.
In(states) == {i \in DOMAIN ops : ops[i].st \in states}
\* C27: every operation submitted to a limiter is started at most once, and
\* at all times submitted = pendingCount + activeCount + completed +
\* discarded by clearQueue: enqueue, admission, completion and clearQueue
\* neither duplicate nor lose a work item.
C27_ItemsConserved ==
  limiter = "ok" =>
    /\ \A a, b \in DOMAIN startOrder : startOrder[a] = startOrder[b] => a = b
    /\ \A a, b \in DOMAIN queue : queue[a] = queue[b] => a = b
    /\ {queue[a] : a \in DOMAIN queue} = In({"queued"})
    /\ {startOrder[a] : a \in DOMAIN startOrder} = In({"running", "settled", "done"})
    /\ Len(ops) = size(queue) + activeCount + Cardinality(In({"done"}))
                    + Cardinality(In({"discarded"}))
\* One operation waits, one is active and one has completed.
C27_Witness ==
  /\ limiter = "ok"
  /\ size(queue) = 1
  /\ activeCount = 1
  /\ Cardinality(In({"done"})) = 1
  /\ Len(ops) = 3
\* One operation was discarded by clearQueue, one is active and one has
\* completed.
C27_WitnessCleared ==
  /\ limiter = "ok"
  /\ Cardinality(In({"discarded"})) = 1
  /\ activeCount = 1
  /\ Cardinality(In({"done"})) = 1

\* ========================================================= the handler's claims
\* When an awaited fan-out has fulfilled its limiter is idle, so the limiter
\* the next fan-out builds is the only one with work.
LimiterIdleAtHandoff ==
  (pc \in {"awaitUntag", "awaitTag", "awaitDelete"} /\ all.state = "fulfilled") =>
    queue = <<>> /\ activeCount = 0 /\ microtasks = <<>>
Keys(t) == DOMAIN t
Values(t) == {t[k] : k \in DOMAIN t}
\* The targets of the remote calls of a kind issued so far.
Issued(kind) == {ops[i].target : i \in {j \in DOMAIN ops : ops[j].kind = kind /\ Started(j)}}
Calls(kind, x) ==
  Cardinality({i \in DOMAIN ops : ops[i].kind = kind /\ Started(i) /\ ops[i].target = x})
AtMostOnceEach == \A x \in Strings(NumNames) : Calls("tag", x) <= 1 /\ Calls("untag", x) <= 1
Completed(i) == ops[i].st \in {"settled", "done"}

\* C7 (as amended): on Create the add-tag calls go to exactly the names (the
\* keys) of the current ImportSet, one call each, there is no untag call, and
\* on success {Data: current ImportSet} is returned.
C7_CreateTagsNames ==
  request.type = "Create" =>
    /\ Issued("untag") = {}
    /\ Issued("tag") \subseteq Keys(request.cur)
    /\ AtMostOnceEach
    /\ pc = "returned" =>
         /\ Issued("tag") = Keys(request.cur)
         /\ result.hasData /\ result.Data = request.cur
\* A Create over two names, whose names are not its values, has returned.
C7_Witness ==
  /\ request.type = "Create"
  /\ pc = "returned"
  /\ Cardinality(Keys(request.cur)) >= 2
  /\ Keys(request.cur) # Values(request.cur)
\* C7 as stated: the add-tag calls go to exactly the values of the ImportSet.
C7_Original ==
  request.type = "Create" =>
    /\ Issued("untag") = {}
    /\ Issued("tag") \subseteq Values(request.cur)
    /\ AtMostOnceEach
    /\ pc = "returned" =>
         /\ Issued("tag") = Values(request.cur)
         /\ result.hasData /\ result.Data = request.cur

\* C8 (as amended): on Update the add-tag calls go to exactly the names of
\* current that are not names of prior, the remove-tag calls to exactly the
\* names of prior that are not names of current, a name in both gets no call,
\* and on success {Data: current ImportSet} is returned.
C8_UpdateDiffsNames ==
  request.type = "Update" =>
    /\ Issued("tag") \subseteq Keys(request.cur) \ Keys(request.old)
    /\ Issued("untag") \subseteq Keys(request.old) \ Keys(request.cur)
    /\ AtMostOnceEach
    /\ pc = "returned" =>
         /\ Issued("tag") = Keys(request.cur) \ Keys(request.old)
         /\ Issued("untag") = Keys(request.old) \ Keys(request.cur)
         /\ result.hasData /\ result.Data = request.cur
\* An Update that kept a name, dropped one and added one has returned.
C8_Witness ==
  /\ request.type = "Update"
  /\ pc = "returned"
  /\ Keys(request.cur) \cap Keys(request.old) # {}
  /\ Issued("tag") # {}
  /\ Issued("untag") # {}
\* C8 as stated: the differences are taken over the values of the ImportSets.
C8_Original ==
  request.type = "Update" =>
    /\ Issued("tag") \subseteq Values(request.cur) \ Values(request.old)
    /\ Issued("untag") \subseteq Values(request.old) \ Values(request.cur)
    /\ AtMostOnceEach
    /\ pc = "returned" =>
         /\ Issued("tag") = Values(request.cur) \ Values(request.old)
         /\ Issued("untag") = Values(request.old) \ Values(request.cur)
         /\ result.hasData /\ result.Data = request.cur

\* C9: on Update no add-tag call is started before every remove-tag call of
\* the invocation has completed.
C9_UntagBeforeTag ==
  request.type = "Update" =>
    \A i, j \in DOMAIN ops :
      (ops[i].kind = "tag" /\ Started(i) /\ ops[j].kind = "untag") => Completed(j)
\* An add-tag call is in flight after two remove-tag calls.
C9_Witness ==
  /\ request.type = "Update"
  /\ \E i \in DOMAIN ops : ops[i].kind = "tag" /\ ops[i].st = "running"
  /\ Cardinality({j \in DOMAIN ops : ops[j].kind = "untag"}) >= 2

\* C10: on Delete a remove-tag call is issued for every name of the current
\* ImportSet, no add-tag call is issued, and on success no output data is
\* returned.
C10_DeleteUntagsAll ==
  request.type = "Delete" =>
    /\ \A i \in DOMAIN ops : ops[i].kind = "untag"
    /\ Issued("untag") \subseteq Keys(request.cur)
    /\ AtMostOnceEach
    /\ ~result.hasData
    /\ pc = "returned" =>
         /\ Issued("untag") = Keys(request.cur)
         /\ result.state = "returned"
\* A Delete over two names has returned.
C10_Witness ==
  /\ request.type = "Delete"
  /\ pc = "returned"
  /\ Cardinality(Keys(request.cur)) >= 2

Rejected == {i \in DOMAIN ops : ops[i].future = "rejected"}
\* The invocation is bound to fail: the awaited Promise.all has rejected and
\* M has thrown or is about to.
InvocationRejects ==
  /\ all.state = "rejected"
  /\ pc \in {"awaitUntag", "awaitTag", "awaitDelete", "threw"}
  /\ ~result.hasData /\ result.state # "returned"

\* C11: when the remote API answers a remove-tag call, of a Delete or of the
\* untag phase of an Update, with "the reference no longer exists", the call
\* counts as a success: the invocation throws only if some call failed
\* otherwise, and the other names are untagged all the same.
C11_AbsentCountsAsSuccess ==
  request.type \in {"Delete", "Update"} =>
    /\ \A i \in DOMAIN ops :
         (ops[i].kind = "untag" /\ ops[i].res = "InvalidResourceId") =>
           ops[i].outcome = "fulfilled" /\ ops[i].future # "rejected"
    /\ (\A i \in DOMAIN ops : ops[i].res \in {"none", "ok"}
           \/ (ops[i].kind = "untag" /\ ops[i].res = "InvalidResourceId")) =>
         pc # "threw" /\ all.state # "rejected"
    /\ (pc = "returned" /\ request.type = "Delete") =>
         Issued("untag") = Keys(request.cur)
    /\ pc = "awaitTag" => Issued("untag") = Keys(request.old) \ Keys(request.cur)
\* A Delete returned although one of its names was reported absent and
\* another was untagged.
C11_Witness ==
  /\ request.type = "Delete"
  /\ pc = "returned"
  /\ \E i, j \in DOMAIN ops :
       ops[i].res = "InvalidResourceId" /\ ops[j].res = "ok"
\* The untag phase of an Update went on to tagging after a name was
\* reported absent.
C11_WitnessUpdate ==
  /\ request.type = "Update"
  /\ pc = "returned"
  /\ \E i, j \in DOMAIN ops :
       /\ ops[i].kind = "untag" /\ ops[i].res = "InvalidResourceId"
       /\ ops[j].kind = "tag" /\ ops[j].res = "ok"

\* C12: exactly one error is swallowed: an item fulfils only if its call
\* succeeded or it is a remove-tag call answered InvalidResourceId; every other
\* failure, and every failure of an add-tag call, rejects the invocation with
\* an error naming a name whose call failed that way.
C12_OnlyAbsentOnUntagSwallowed ==
  /\ \A i \in DOMAIN ops :
       ops[i].res # "none" =>
         (ops[i].outcome = "fulfilled" <=>
            (ops[i].res = "ok"
               \/ (ops[i].kind = "untag" /\ ops[i].res = "InvalidResourceId")))
  /\ Rejected # {} => InvocationRejects
  /\ pc = "threw" =>
       \E i \in DOMAIN ops :
         /\ ops[i].target = result.err
         /\ ops[i].res = "Other" \/ (ops[i].kind = "tag" /\ ops[i].res = "InvalidResourceId")
\* An add-tag call answered InvalidResourceId made the invocation throw, after
\* a remove-tag call answered the same had been let through.
C12_Witness ==
  /\ pc = "threw"
  /\ \E i, j \in DOMAIN ops :
       /\ ops[i].kind = "untag" /\ ops[i].res = "InvalidResourceId"
       /\ ops[j].kind = "tag" /\ ops[j].res = "InvalidResourceId"
       /\ result.err = ops[j].target
\* A remove-tag call failed otherwise and the invocation threw, naming it.
C12_WitnessUntag ==
  /\ pc = "threw"
  /\ \E i \in DOMAIN ops :
       ops[i].kind = "untag" /\ ops[i].res = "Other" /\ result.err = ops[i].target

\* C13: if an add-tag call of a Create or Update fails, the invocation rejects:
\* no {Data} is returned, and the error names a name whose add-tag call
\* failed (the one that failed, when it is the only one).
FailedTags == {i \in DOMAIN ops : ops[i].kind = "tag" /\ ops[i].res \notin {"none", "ok"}}
C13_TagFailureRejects ==
  request.type \in {"Create", "Update"} =>
    /\ (\E i \in FailedTags : ops[i].future = "rejected") => InvocationRejects
    /\ FailedTags # {} => pc # "returned" /\ ~result.hasData
    /\ (pc = "threw" /\ FailedTags # {}) =>
         \E i \in FailedTags : result.err = ops[i].target
\* One add-tag call among three failed, the invocation threw naming it.
C13_Witness ==
  /\ request.type = "Create"
  /\ pc = "threw"
  /\ Cardinality(DOMAIN ops) = 3
  /\ \E i \in DOMAIN ops :
       /\ FailedTags = {i}
       /\ result.err = ops[i].target
       /\ \A j \in DOMAIN ops \ {i} : ops[j].res = "ok"

\* The remote calls that were started and have not completed.
InFlight == {i \in DOMAIN ops : ops[i].kind \in {"tag", "untag"} /\ ops[i].st = "running"}

\* C14: whatever the number of names of an ImportSet, more than 10 included,
\* at no point of an invocation are more than 10 remote tag/untag calls
\* started and not yet completed.
C14_AtMostTenInFlight == Cardinality(InFlight) <= FanoutConcurrency
\* Ten calls of a fan-out over more than ten names are in flight while the
\* rest waits in the limiter's queue.
C14_Witness ==
  /\ Cardinality(fanout) > FanoutConcurrency
  /\ Cardinality(InFlight) = FanoutConcurrency
  /\ \E i \in fanout : ops[i].st = "queued"
\* The second fan-out of an Update has ten calls in flight after the first
\* one, over more than ten names too, completed.
C14_WitnessUpdate ==
  /\ request.type = "Update"
  /\ pc = "awaitTag"
  /\ Len(ops) > Cardinality(fanout)
  /\ Cardinality(fanout) > FanoutConcurrency
  /\ Cardinality(InFlight) = FanoutConcurrency

\* Every invocation made so far completed successfully.
AllSucceeded == pc \in {"idle", "returned"}
\* The owner o has been created and not deleted.
ActiveOwner(o) == owners[o].status = "active"
\* The parameter v carries a marker tag.
Carries(v) == \E t \in tags : t[1] = v
\* The names and the values of the owners' ImportSets.
OwnerStrings == OwnerNameSet \cup {OwnerValue(n) : n \in OwnerNameSet}
DistinctPrefixes ==
  \A a \in Owners, b \in Owners : a # b => owners[a].prefix # owners[b].prefix
\* No remote call was answered "the parameter does not exist".
ParametersExist == \A i \in DOMAIN ops : ops[i].res # "InvalidResourceId"

C15_WitnessUpdate ==
  /\ AllSucceeded /\ DOMAIN owners # {} /\ DistinctPrefixes /\ ParametersExist
  /\ request.type = "Update" /\ pc = "returned"
  /\ DOMAIN request.old = {1} /\ DOMAIN request.cur = {2}
  /\ <<2, TagKey(prefix)>> \in tags /\ <<1, TagKey(prefix)>> \notin tags

\* The items the invocation handed to its limiters for a call of a kind to x.
Items(kind, x) == {i \in DOMAIN ops : ops[i].kind = kind /\ ops[i].target = x}
\* The remote call of item i failed.
Failed(i) == ops[i].res \notin {"none", "ok"}

\* C23: within one invocation each name gets at most one add-tag call and
\* at most one remove-tag call, and a remote call that failed is never
\* issued again.
C23_NoRetry ==
  /\ [](\A x \in Strings(NumNames) :
          Cardinality(Items("tag", x)) <= 1 /\ Cardinality(Items("untag", x)) <= 1)
  /\ [][\A i \in DOMAIN ops :
          Failed(i) =>
            \A j \in DOMAIN ops' :
              (ops'[j].kind = ops[i].kind /\ ops'[j].target = ops[i].target) => j = i]_vars
\* The invocation threw after a call failed; everything has run and the
\* failed call was the only one for its name.
C23_Witness ==
  /\ pc = "threw"
  /\ microtasks = <<>>
  /\ Len(ops) >= 2
  /\ \A i \in DOMAIN ops : ops[i].st = "done"
  /\ \E i \in DOMAIN ops :
       ops[i].res = "Other" /\ Items(ops[i].kind, ops[i].target) = {i}

\* C24: when a call of a fan-out rejects, the invocation rejects with that
\* first rejection, and the other calls of the fan-out are not cancelled:
\* a call in flight stays in flight until its own response arrives, no item
\* is discarded, and the response still acts on the parameter's tag after
\* the invocation has thrown.
C24_FirstRejectionNoCancel ==
  /\ [](Rejected # {} => InvocationRejects)
  /\ [](pc = "threw" =>
          /\ ops[all.err].future = "rejected"
          /\ result.err = ops[all.err].target)
  /\ [][all.state = "rejected" => all' = all]_vars
  /\ [](~clearCalled /\ \A i \in DOMAIN ops : ops[i].st # "discarded")
  /\ [][\A i \in DOMAIN ops :
          ops[i].st = "running" =>
            \/ ops'[i].st = "running"
            \/ /\ ops'[i].st = "settled" /\ ops'[i].res # "none"
               /\ tags' = RemoteEffect(tags, ops[i].kind, ops[i].target,
                                       TagKey(prefix), ops'[i].res)]_vars
\* The invocation has thrown while another call of the fan-out is in flight.
C24_Witness ==
  /\ pc = "threw"
  /\ \E i \in fanout : ops[i].future = "rejected" /\ result.err = ops[i].target
  /\ \E j \in fanout : ops[j].st = "running"
\* A Create has thrown for one name, and the other two names carry the tag.
C24_WitnessEffect ==
  /\ pc = "threw"
  /\ request.type = "Create"
  /\ Cardinality(tags) = 2
  /\ \A i \in DOMAIN ops : ops[i].st = "done"

\* The calls of the limiter l that are in flight.
InFlightOf(l) == {i \in DOMAIN lims[l].ops : lims[l].ops[i].st = "running"}
\* The invocation k starts a fan-out in this step.
StartsFanout(k) ==
  /\ invs[k].pc \in {"start", "awaitUntag"}
  /\ invs'[k].pc \in {"awaitUntag", "awaitTag", "awaitDelete"}
  /\ invs'[k].pc # invs[k].pc

\* C25: limiter state is not shared between interleaved invocations: the
\* limiter an invocation awaits was built by it and is used by no other;
\* a fan-out that starts leaves every limiter that exists untouched; each
\* limiter counts its own calls only, so each invocation has up to 10 calls
\* in flight whatever the other does; no item waits once the admission jobs
\* have run, and none is discarded.
C25_LimitersNotShared ==
  /\ [](\A k \in DOMAIN invs :
          invs[k].lim # 0 =>
            /\ lims[invs[k].lim].inv = k
            /\ \A j \in DOMAIN invs : j # k => invs[j].lim # invs[k].lim
            /\ invs[k].fanout = DOMAIN lims[invs[k].lim].ops)
  /\ [][\A k \in DOMAIN invs :
          StartsFanout(k) => \A l \in DOMAIN lims : lims'[l] = lims[l]]_vars
  /\ [](\A l \in DOMAIN lims :
          /\ lims[l].activeCount =
               Cardinality({i \in DOMAIN lims[l].ops :
                              lims[l].ops[i].st \in {"running", "settled"}})
          /\ lims[l].activeCount <= FanoutConcurrency
          /\ microtasks = <<>> => lims[l].queue = <<>>
          /\ \A i \in DOMAIN lims[l].ops : lims[l].ops[i].st # "discarded")
\* Ten calls of one invocation and one call of the other are in flight
\* together, each in its invocation's limiter.
C25_Witness ==
  /\ Len(lims) = 2
  /\ lims[1].inv # lims[2].inv
  /\ Cardinality(InFlightOf(1)) + Cardinality(InFlightOf(2)) = FanoutConcurrency + 1
  /\ \E l \in DOMAIN lims : Cardinality(InFlightOf(l)) = FanoutConcurrency
\* The second fan-out of an Update started while the other invocation's
\* calls were in flight.
C25_WitnessUpdate ==
  /\ Len(lims) = 3
  /\ \E k \in DOMAIN invs :
       /\ invs[k].request.type = "Update" /\ invs[k].pc = "awaitTag"
       /\ \E l \in DOMAIN lims : lims[l].inv # k /\ InFlightOf(l) # {}

\* A remove-tag call of the invocation failed with another error than
\* "the parameter does not exist".
UntagFailed == \E i \in DOMAIN ops : ops[i].kind = "untag" /\ ops[i].res = "Other"

\* C28: on Update, if a remove-tag call fails with another error than "the
\* reference no longer exists", the invocation rejects and issues no add-tag
\* call, ever: the names that are new in the ImportSet stay untagged.
C28_UntagFailureStopsUpdate ==
  /\ []((request.type = "Update" /\ UntagFailed) =>
          /\ \A j \in DOMAIN ops : ops[j].kind # "tag"
          /\ \A x \in Strings(NumNames) : <<x, TagKey(prefix)>> \notin tags
          /\ pc \in {"awaitUntag", "threw"}
          /\ ~result.hasData)
  /\ ((request.type = "Update" /\ UntagFailed) ~> (pc = "threw"))
\* An Update with a name to add has thrown after one remove-tag call failed
\* and another succeeded; everything has run.
C28_Witness ==
  /\ request.type = "Update"
  /\ pc = "threw"
  /\ Len(ToTag) > 0
  /\ \E i, j \in DOMAIN ops : ops[i].res = "Other" /\ ops[j].res = "ok"
  /\ \A i \in DOMAIN ops : ops[i].kind = "untag" /\ ops[i].st = "done"
  /\ microtasks = <<>>

\* C29: when a fan-out has more than 10 names and one of the first calls
\* rejects, the names still queued in the fan-out's limiter are started
\* later all the same: the limiter keeps draining after the invocation has
\* thrown, no item is discarded, and every name of the fan-out eventually
\* gets its remote call.
C29_LimiterDrainsAfterRejection ==
  /\ [](\A i \in DOMAIN ops : ops[i].st # "discarded")
  /\ <>[](/\ \A i \in DOMAIN ops : Started(i)
          /\ {ops[i].target : i \in DOMAIN ops} = 1..DrainNames)
\* The invocation has thrown while a name of the fan-out still waits in the
\* limiter's queue.
C29_Witness ==
  /\ pc = "threw"
  /\ Cardinality(fanout) > FanoutConcurrency
  /\ \E i \in fanout : ops[i].st = "queued"
\* The invocation threw on the first name's call and every name has had
\* its call since.
C29_WitnessDrained ==
  /\ pc = "threw"
  /\ result.err = 1
  /\ Cardinality(fanout) > FanoutConcurrency
  /\ \A i \in fanout : ops[i].st = "done"

\* =================================================== GlueStartJobRun's claims
\* "numberOfWorkers must be a positive integer", the message the test expects
PositiveIntegerMessage == "numberOfWorkers must be a positive integer"
\* 0, a non-integer (1.5) and NaN
NotPositiveIntegers == {Num(0), Num(3), [kind |-> "nan", half |-> 0]}

\* C16: building a GlueStartJobRun with a numberOfWorkers of 0, of a
\* non-integer or of NaN throws an error whose message holds
\* "numberOfWorkers must be a positive integer".
C16_InvalidWorkersThrow ==
  (/\ construct.stage # "new"
   /\ props.integrationPattern # "WAIT_FOR_TASK_TOKEN"
   /\ props.numberOfWorkers \in NotPositiveIntegers) =>
    construct.stage = "threw" /\ construct.error = PositiveIntegerMessage

\* C17: the task is built for exactly the patterns REQUEST_RESPONSE (the
\* default) and RUN_JOB, WAIT_FOR_TASK_TOKEN throws the unsupported-pattern
\* error, and the granted actions are glue:StartJobRun alone for
\* REQUEST_RESPONSE and the four job-run actions for RUN_JOB.
C17_SupportedPatterns ==
  construct.stage # "new" =>
    /\ (construct.stage = "threw" /\ construct.error = UnsupportedPatternError)
         <=> props.integrationPattern = "WAIT_FOR_TASK_TOKEN"
    /\ construct.integrationPattern =
         (IF props.integrationPattern = "undefined"
            THEN "REQUEST_RESPONSE" ELSE props.integrationPattern)
    /\ construct.stage \in {"constructed", "rendered"} =>
         /\ construct.integrationPattern \in {"REQUEST_RESPONSE", "RUN_JOB"}
         /\ construct.integrationPattern = "REQUEST_RESPONSE" =>
              construct.taskPolicies = <<"glue:StartJobRun">>
         /\ construct.integrationPattern = "RUN_JOB" =>
              construct.taskPolicies =
                <<"glue:StartJobRun", "glue:GetJobRun", "glue:GetJobRuns",
                  "glue:BatchStopJobRun">>
\* A RUN_JOB task was built and rendered.
C17_Witness ==
  /\ construct.stage = "rendered"
  /\ props.integrationPattern = "RUN_JOB"
  /\ Len(construct.taskPolicies) = 4
\* WAIT_FOR_TASK_TOKEN threw.
C17_WitnessThrow ==
  /\ construct.stage = "threw"
  /\ props.integrationPattern = "WAIT_FOR_TASK_TOKEN"

\* ========================================================= RecordSet's claims
\* C18: construction with a supplied setIdentifier whose length is outside
\* 1..128, the empty string included, is rejected, and no record set with
\* such an identifier is rendered.
C18_SetIdentifierLength ==
  (/\ construct.stage # "new"
   /\ props.setIdentifier.def
   /\ (Len(props.setIdentifier.val) < 1
         \/ Len(props.setIdentifier.val) > SetIdentifierMax)) =>
    construct.stage = "threw"

\* C19: construction with a setIdentifier and neither a weight nor a
\* geoLocation is rejected.
C19_SetIdentifierNeedsWeightOrGeo ==
  (/\ construct.stage # "new"
   /\ props.setIdentifier.def
   /\ props.weight.kind = "undefined"
   /\ ~props.geoLocation.def) =>
    construct.stage = "threw"

\* C20: with a cidrRoutingConfig, construction is rejected for the default
\* location '*' with a cidrList and for any other location without one.
C20_CidrListDefaultOrMandatory ==
  (/\ construct.stage # "new"
   /\ props.cidrRoutingConfig.def
   /\ \/ IsStar(props.cidrRoutingConfig.locationName)
           /\ props.cidrRoutingConfig.cidrList.def
      \/ ~IsStar(props.cidrRoutingConfig.locationName)
           /\ ~props.cidrRoutingConfig.cidrList.def) =>
    construct.stage = "threw"

====
